---- MODULE Spec2Model ----
(***************************************************************************)
(* A model of spreadsheet.Sheet (src/spreadsheet/sheet.go): the row        *)
(* addressing operations EnsureRow / AddNumberedRow / AddRow / Rows, the   *)
(* structural validator Validate, the name accessor SetName and the        *)
(* drawing linker SetDrawing.                                              *)
(***************************************************************************)
EXTENDS Integers, Sequences, FiniteSets, TLC

VARIABLES
    Row,        \* s.ws.SheetData.Row: the rows of the sheet's worksheet, in stored order
    NameAttr,   \* s.x.NameAttr: the sheet's display name
    ret,        \* the last call: its name, its arguments and what it returned
    xwsRels,    \* w.xwsRels of every workbook: the relationships of each tracked worksheet
    Drawing     \* ws.Drawing of every worksheet tree: Nil, or a pointer to its IdAttr

vars == <<Row, NameAttr, ret, xwsRels, Drawing>>

---------------------------------------------------------------------------
(* Bounds of the model. *)

\* the most rows a worksheet holds (appending stops there)
MaxRows == 3
\* the most rows of a worksheet that was loaded before the row operations run
MaxLoaded == 1
\* the most rows of a loaded worksheet handed to Validate alone
MaxSheetRows == 2
\* the most cells of a loaded row
MaxCells == 2
\* the most relationships one relationship set holds
MaxRels == 2

---------------------------------------------------------------------------
(* Pointers: nil, or a pointer to a value. *)

Nil == <<>>
Ptr(v) == <<v>>
Deref(p) == p[1]

(* uint32: the pair <<hi, lo>> of the 16-bit halves of the number, so that *)
(* the whole range 0 .. 2^32-1 is there and + 1 wraps as it does in Go.    *)

Half == 2 ^ 16
U32(hi, lo) == <<hi, lo>>
U32Of(k) == U32(k \div Half, k % Half)
MaxUint32 == U32(Half - 1, Half - 1)

\* a > b on uint32
U32Gt(a, b) == a[1] > b[1] \/ (a[1] = b[1] /\ a[2] > b[2])

\* a + 1 on uint32
U32Inc(a) ==
    IF a[2] + 1 < Half THEN U32(a[1], a[2] + 1)
    ELSE U32((a[1] + 1) % Half, 0)

---------------------------------------------------------------------------
(* Rows and cells.  A row is [id, RAttr, C]: id stands for the address of  *)
(* the *sml.CT_Row, RAttr is nil or points to the row number, C holds the  *)
(* cells; a cell is [RAttr], nil or a pointer to its address string.       *)

\* sml.NewCT_Row(): a new row object, at an address no row of the sheet has
NewCT_Row(rows) ==
    LET used == {rows[i].id : i \in 1..Len(rows)}
        top  == IF used = {} THEN 0 ELSE CHOOSE m \in used : \A k \in used : k <= m
    IN [id |-> top + 1, RAttr |-> Nil, C |-> <<>>]

\* AddNumberedRow as it would be if it replaced a row that carries the number
\* instead of adding a second one
AddNumberedRowOp_Replaces(rows, rowNum) ==
    LET r    == [NewCT_Row(rows) EXCEPT !.RAttr = Ptr(rowNum)]
        kept == SelectSeq(rows, LAMBDA x : x.RAttr # Ptr(rowNum))
    IN [Row |-> Append(kept, r), val |-> r.id]

\* AddNumberedRow: the rows afterwards and the row handed back
AddNumberedRowOp(rows, rowNum) ==
    LET r == [NewCT_Row(rows) EXCEPT !.RAttr = Ptr(rowNum)]
    IN [Row |-> Append(rows, r), val |-> r.id]

\* the loop of EnsureRow as it would be if it kept scanning after a match: the
\* index of the last row numbered rowNum
EnsureRowFind_Last(rows, i, rowNum) ==
    LET hits == {k \in i..Len(rows) :
                    rows[k].RAttr # Nil /\ Deref(rows[k].RAttr) = rowNum}
    IN IF hits = {} THEN 0 ELSE CHOOSE k \in hits : \A l \in hits : l <= k

\* the loop of EnsureRow from index i on: the index of the first row numbered
\* rowNum, or 0 when the loop runs out
RECURSIVE EnsureRowFind(_, _, _)
EnsureRowFind(rows, i, rowNum) ==
    IF i > Len(rows) THEN 0
    ELSE IF rows[i].RAttr # Nil /\ Deref(rows[i].RAttr) = rowNum THEN i
    ELSE EnsureRowFind(rows, i + 1, rowNum)

\* EnsureRow: the rows afterwards and the row handed back
EnsureRowOp(rows, rowNum) ==
    LET i == EnsureRowFind(rows, 1, rowNum)
    IN IF i # 0 THEN [Row |-> rows, val |-> rows[i].id]
       ELSE AddNumberedRowOp(rows, rowNum)

\* the loop of AddRow from index i on, maxRowID being the maximum so far
RECURSIVE MaxRowIDLoop(_, _, _)
MaxRowIDLoop(rows, i, maxRowID) ==
    IF i > Len(rows) THEN maxRowID
    ELSE IF rows[i].RAttr # Nil /\ U32Gt(Deref(rows[i].RAttr), maxRowID)
         THEN MaxRowIDLoop(rows, i + 1, Deref(rows[i].RAttr))
         ELSE MaxRowIDLoop(rows, i + 1, maxRowID)

\* AddRow: the rows afterwards and the row handed back
AddRowOp(rows) ==
    AddNumberedRowOp(rows, U32Inc(MaxRowIDLoop(rows, 1, U32Of(0))))

\* the loop of Rows from index i on, acc being the handles gathered so far
RECURSIVE RowsLoop(_, _, _)
RowsLoop(rows, i, acc) ==
    IF i > Len(rows) THEN acc
    ELSE RowsLoop(rows, i + 1, Append(acc, rows[i].id))

\* Rows as it would be if it put each handle in front of those gathered
RowsOp_Reversed(rows) == [i \in 1..Len(rows) |-> rows[Len(rows) + 1 - i].id]

\* Rows: the handles handed back
RowsOp(rows) == RowsLoop(rows, 1, <<>>)

---------------------------------------------------------------------------
(* Validate. *)

NoErr == [kind |-> "nil"]
ReusedRow(name, num) == [kind |-> "reusedRow", name |-> name, row |-> num]
ReusedCell(name, addr) == [kind |-> "reusedCell", name |-> name, cell |-> addr]

\* what the delegated validators s.x.Validate() and s.ws.Validate() may answer
XErrs == {NoErr, [kind |-> "sheetInvalid"]}
WsErrs == {NoErr, [kind |-> "worksheetInvalid"]}

\* the loop over the cells of one row from index k on
RECURSIVE ValidateCells(_, _, _, _)
ValidateCells(C, k, usedCells, name) ==
    IF k > Len(C) THEN NoErr
    ELSE IF C[k].RAttr = Nil THEN ValidateCells(C, k + 1, usedCells, name)
    ELSE IF Deref(C[k].RAttr) \in usedCells THEN ReusedCell(name, Deref(C[k].RAttr))
    ELSE ValidateCells(C, k + 1, usedCells \cup {Deref(C[k].RAttr)}, name)

\* the loop over the rows as it would be if the seen cell addresses were not
\* reset for each row
RECURSIVE ValidateRows_SharedCells(_, _, _, _)
ValidateRows_SharedCells(rows, i, usedRows, name) ==
    IF i > Len(rows) THEN NoErr
    ELSE LET r == rows[i]
             reusedRow == r.RAttr # Nil /\ Deref(r.RAttr) \in usedRows
             used == IF r.RAttr # Nil THEN usedRows \cup {Deref(r.RAttr)} ELSE usedRows
             earlier == UNION {{Deref(rows[j].C[k].RAttr) :
                                  k \in {l \in 1..Len(rows[j].C) : rows[j].C[l].RAttr # Nil}} :
                               j \in 1..(i - 1)}
             cellErr == ValidateCells(r.C, 1, earlier, name)
         IN IF reusedRow THEN ReusedRow(name, Deref(r.RAttr))
            ELSE IF cellErr # NoErr THEN cellErr
            ELSE ValidateRows_SharedCells(rows, i + 1, used, name)

\* the loop over the rows from index i on
RECURSIVE ValidateRows(_, _, _, _)
ValidateRows(rows, i, usedRows, name) ==
    IF i > Len(rows) THEN NoErr
    ELSE LET r == rows[i]
             reusedRow == r.RAttr # Nil /\ Deref(r.RAttr) \in usedRows
             used == IF r.RAttr # Nil THEN usedRows \cup {Deref(r.RAttr)} ELSE usedRows
             cellErr == ValidateCells(r.C, 1, {}, name)
         IN IF reusedRow THEN ReusedRow(name, Deref(r.RAttr))
            ELSE IF cellErr # NoErr THEN cellErr
            ELSE ValidateRows(rows, i + 1, used, name)

\* Validate as it would be if it asked the delegated validators first
ValidateOp_DelegatedFirst(rows, name, xErr, wsErr) ==
    IF xErr # NoErr THEN xErr
    ELSE IF wsErr # NoErr THEN wsErr
    ELSE ValidateRows(rows, 1, {}, name)

\* Validate: the error handed back, xErr and wsErr being the answers of the
\* delegated validators of the sheet metadata and of the worksheet tree
ValidateOp(rows, name, xErr, wsErr) ==
    LET err == ValidateRows(rows, 1, {}, name)
    IN IF err # NoErr THEN err
       ELSE IF xErr # NoErr THEN xErr
       ELSE wsErr

---------------------------------------------------------------------------
(* The inputs. *)

\* the row numbers the callers pass
RowNums == {U32Of(0), U32Of(1), MaxUint32}

\* the names SetName is called with
SheetNames == {"Sheet 1", "Sheet 2"}

\* the row numbers and cell addresses of a loaded worksheet
LoadedRowNums == {Nil, Ptr(U32Of(1)), Ptr(MaxUint32)}
LoadedCellAttrs == {Nil, Ptr("A1"), Ptr("B1")}

\* the cells of a loaded row, up to the naming of the addresses: an address is
\* only ever compared with the addresses of its own row, so "B1" stands for the
\* second distinct address of the row
LoadedCells ==
    LET seqs == UNION {[1..k -> LoadedCellAttrs] : k \in 0..MaxCells}
        canon(c) == \A k \in 1..Len(c) :
                        c[k] = Ptr("B1") => \E j \in 1..(k - 1) : c[j] = Ptr("A1")
    IN {[k \in 1..Len(c) |-> [RAttr |-> c[k]]] : c \in {d \in seqs : canon(d)}}

\* a loaded worksheet: row i is at address i and carries the number and the
\* cells f gives it
LoadedSheet(f) ==
    [i \in 1..Len(f) |-> [id |-> i, RAttr |-> f[i][1], C |-> f[i][2]]]

\* rows is a loaded worksheet of at most n rows
IsLoadedSheet(rows, n) ==
    \E k \in 0..n : \E f \in [1..k -> LoadedRowNums \X LoadedCells] :
        rows = LoadedSheet(f)

\* ret before any call; a call sets op and the fields that hold its arguments
\* and its result: rowNum and row (the address of the row handed back) for
\* EnsureRow, AddNumberedRow and AddRow, rows for Rows, name for SetName,
\* delegated (the answers of the two delegated validators) and err for
\* Validate, handles (the sheet and the drawing) and panicked for SetDrawing
NoCall ==
    [op |-> "none", rowNum |-> <<0, 0>>, row |-> 0, rows |-> <<>>, name |-> "",
     delegated |-> <<NoErr, NoErr>>, err |-> NoErr, handles |-> <<>>,
     panicked |-> FALSE]

---------------------------------------------------------------------------
(* The operations of Sheet on its rows. *)

EnsureRow(rowNum) ==
    LET out == EnsureRowOp(Row, rowNum)
    IN /\ Len(out.Row) <= MaxRows
       /\ Row' = out.Row
       /\ ret' = [NoCall EXCEPT !.op = "EnsureRow", !.rowNum = rowNum, !.row = out.val]
       /\ UNCHANGED <<NameAttr, xwsRels, Drawing>>

AddNumberedRow(rowNum) ==
    LET out == AddNumberedRowOp(Row, rowNum)
    IN /\ Len(out.Row) <= MaxRows
       /\ Row' = out.Row
       /\ ret' = [NoCall EXCEPT !.op = "AddNumberedRow", !.rowNum = rowNum, !.row = out.val]
       /\ UNCHANGED <<NameAttr, xwsRels, Drawing>>

AddRow ==
    LET out == AddRowOp(Row)
    IN /\ Len(out.Row) <= MaxRows
       /\ Row' = out.Row
       /\ ret' = [NoCall EXCEPT !.op = "AddRow", !.row = out.val]
       /\ UNCHANGED <<NameAttr, xwsRels, Drawing>>

Rows ==
    /\ ret' = [NoCall EXCEPT !.op = "Rows", !.rows = RowsOp(Row)]
    /\ UNCHANGED <<Row, NameAttr, xwsRels, Drawing>>

SetName(name) ==
    /\ NameAttr' = name
    /\ ret' = [NoCall EXCEPT !.op = "SetName", !.name = name]
    /\ UNCHANGED <<Row, xwsRels, Drawing>>

Validate(xErr, wsErr) ==
    /\ ret' = [NoCall EXCEPT !.op = "Validate", !.delegated = <<xErr, wsErr>>,
                            !.err = ValidateOp(Row, NameAttr, xErr, wsErr)]
    /\ UNCHANGED <<Row, NameAttr, xwsRels, Drawing>>

---------------------------------------------------------------------------
(* The workbooks: the worksheet trees and drawing definitions each tracks.  *)
(* Sheet handles are [w, ws] and Drawing handles [wb, x]; a handle whose    *)
(* tree or definition its workbook does not track is one whose lookup in    *)
(* SetDrawing runs out.                                                     *)

Workbooks == {"wb1", "wb2"}
WsTrees == {"ws1", "ws2", "ws3"}
DrawingDefs == {"dr1", "dr2", "dr3"}

\* w.xws and w.drawings
xws == [wb \in Workbooks |-> IF wb = "wb1" THEN <<"ws1", "ws2">> ELSE <<>>]
drawings == [wb \in Workbooks |-> IF wb = "wb1" THEN <<"dr1", "dr2">> ELSE <<"dr3">>]

\* the handles the callers hold
SheetHandles == {[w |-> "wb1", ws |-> t] : t \in WsTrees}
DrawingHandles ==
    {[wb |-> "wb1", x |-> "dr1"], [wb |-> "wb1", x |-> "dr2"],
     [wb |-> "wb2", x |-> "dr3"], [wb |-> "wb1", x |-> "dr3"]}

\* the first loop of SetDrawing from (1-based) index i on: the relationship set
\* aligned with the sheet's worksheet tree, a reference <<w, i>> into xwsRels,
\* or the zero value when the loop runs out
RECURSIVE FindRel(_, _)
FindRel(s, i) ==
    IF i > Len(xws[s.w]) THEN Nil
    ELSE IF xws[s.w][i] = s.ws THEN Ptr(<<s.w, i>>)
    ELSE FindRel(s, i + 1)

\* the second loop of SetDrawing from Go index i on: the Go index of the
\* drawing's definition in d.wb.drawings, or -1 when the loop runs out
RECURSIVE FindDrawing(_, _)
FindDrawing(d, i) ==
    IF i + 1 > Len(drawings[d.wb]) THEN -1
    ELSE IF drawings[d.wb][i + 1] = d.x THEN i
    ELSE FindDrawing(d, i + 1)

\* what a call of AddAutoRelationship on the zero value of common.Relationships
\* (the set of a sheet whose worksheet tree is not tracked) may do: panic, or
\* hand back a relationship that no tracked set holds
ZeroRelOutcomes == {"panics", "detached"}

\* common.Relationships.AddAutoRelationship, then Relationship.ID(): a new entry
\* at the end of the set rel refers to, with an identifier no entry of that set
\* has; the zero value refers to no tracked set, and zero says what the call on
\* it does
AddAutoRelationship(rels, rel, dt, idx, ctype, zero) ==
    IF rel = Nil
    THEN [xwsRels |-> rels, ID |-> "rId" \o ToString(1), panicked |-> zero = "panics"]
    ELSE LET w  == Deref(rel)[1]
             i  == Deref(rel)[2]
             id == "rId" \o ToString(Len(rels[w][i]) + 1)
             e  == [Id |-> id, Type |-> ctype, Target |-> <<dt, idx>>]
         IN [xwsRels |-> [rels EXCEPT ![w][i] = Append(@, e)], ID |-> id,
             panicked |-> FALSE]

\* SetDrawing as it would be if it numbered the drawing part from 0
SetDrawingOp_ZeroBased(rels, drw, s, d, zero) ==
    LET rel == FindRel(s, 1)
        i   == FindDrawing(d, 0)
        out == IF i # -1
               THEN AddAutoRelationship(rels, rel, "DocTypeSpreadsheet", i, "DrawingType", zero)
               ELSE [xwsRels |-> rels, ID |-> "", panicked |-> FALSE]
    IN IF out.panicked THEN [xwsRels |-> rels, Drawing |-> drw, panicked |-> TRUE]
       ELSE [xwsRels |-> out.xwsRels,
             Drawing |-> [drw EXCEPT ![s.ws] = Ptr([IdAttr |-> out.ID])],
             panicked |-> FALSE]

\* SetDrawing as it would be if it returned early when the drawing is not found
SetDrawingOp_ReturnsOnMiss(rels, drw, s, d, zero) ==
    LET rel == FindRel(s, 1)
        i   == FindDrawing(d, 0)
        out == AddAutoRelationship(rels, rel, "DocTypeSpreadsheet", i + 1, "DrawingType", zero)
    IN IF i = -1 \/ out.panicked
       THEN [xwsRels |-> rels, Drawing |-> drw, panicked |-> i # -1]
       ELSE [xwsRels |-> out.xwsRels,
             Drawing |-> [drw EXCEPT ![s.ws] = Ptr([IdAttr |-> out.ID])],
             panicked |-> FALSE]

\* SetDrawing: the relationship sets and the drawing references afterwards, and
\* whether the call panicked on the way
SetDrawingOp(rels, drw, s, d, zero) ==
    LET rel == FindRel(s, 1)
        i   == FindDrawing(d, 0)
        out == IF i # -1
               THEN AddAutoRelationship(rels, rel, "DocTypeSpreadsheet", i + 1, "DrawingType", zero)
               ELSE [xwsRels |-> rels, ID |-> "", panicked |-> FALSE]
    IN IF out.panicked THEN [xwsRels |-> rels, Drawing |-> drw, panicked |-> TRUE]
       ELSE [xwsRels |-> out.xwsRels,
             Drawing |-> [drw EXCEPT ![s.ws] = Ptr([IdAttr |-> out.ID])],
             panicked |-> FALSE]

SetDrawing(s, d) ==
    \E zero \in ZeroRelOutcomes :
        LET out == SetDrawingOp(xwsRels, Drawing, s, d, zero)
        IN /\ \A w \in Workbooks : \A i \in 1..Len(out.xwsRels[w]) :
                  Len(out.xwsRels[w][i]) <= MaxRels
           /\ xwsRels' = out.xwsRels
           /\ Drawing' = out.Drawing
           /\ ret' = [NoCall EXCEPT !.op = "SetDrawing", !.handles = <<s, d>>,
                                    !.panicked = out.panicked]
           /\ UNCHANGED <<Row, NameAttr>>

---------------------------------------------------------------------------
(* The specifications. *)

\* a new workbook: no relationship in any set, no worksheet with a drawing
InitWorkbook ==
    /\ xwsRels = [w \in Workbooks |-> [i \in 1..Len(xws[w]) |-> <<>>]]
    /\ Drawing = [t \in WsTrees |-> Nil]

\* the row operations on a loaded worksheet
Init ==
    /\ IsLoadedSheet(Row, MaxLoaded)
    /\ NameAttr = "Sheet 1"
    /\ ret = NoCall
    /\ InitWorkbook

Next ==
    \/ \E rowNum \in RowNums : EnsureRow(rowNum)
    \/ \E rowNum \in RowNums : AddNumberedRow(rowNum)
    \/ AddRow
    \/ Rows
    \/ \E xErr \in XErrs, wsErr \in WsErrs : Validate(xErr, wsErr)

Spec == Init /\ [][Next]_vars

\* EnsureRow and AddRow alone, on the empty worksheet of a new sheet
InitNew ==
    /\ Row = <<>>
    /\ NameAttr = "Sheet 1"
    /\ ret = NoCall
    /\ InitWorkbook

NextNew ==
    \/ \E rowNum \in RowNums : EnsureRow(rowNum)
    \/ AddRow
    \/ \E name \in SheetNames : SetName(name)
    \/ \E xErr \in XErrs, wsErr \in WsErrs : Validate(xErr, wsErr)

SpecNew == InitNew /\ [][NextNew]_vars

\* Validate on a loaded worksheet
InitValidate ==
    /\ IsLoadedSheet(Row, MaxSheetRows)
    /\ NameAttr = "Sheet 1"
    /\ ret = NoCall
    /\ InitWorkbook

NextValidate ==
    \E xErr \in XErrs, wsErr \in WsErrs : Validate(xErr, wsErr)

SpecValidate == InitValidate /\ [][NextValidate]_vars

\* SetDrawing with the handles of the workbooks
InitDrawing ==
    /\ Row = <<>>
    /\ NameAttr = "Sheet 1"
    /\ ret = NoCall
    /\ InitWorkbook

NextDrawing ==
    \E d \in DrawingHandles, s \in SheetHandles : SetDrawing(s, d)

SpecDrawing == InitDrawing /\ [][NextDrawing]_vars

---------------------------------------------------------------------------
(* What the properties below speak of. *)

\* rows holds a row carrying the explicit number n
HasNumber(rows, n) == \E i \in 1..Len(rows) : rows[i].RAttr = Ptr(n)

\* the index of the first row of rows, in stored order, carrying the number n
FirstNumbered(rows, n) ==
    CHOOSE i \in 1..Len(rows) :
        /\ rows[i].RAttr = Ptr(n)
        /\ \A j \in 1..(i - 1) : rows[j].RAttr # Ptr(n)

\* later is earlier with exactly one row, numbered n and at a new address,
\* appended at its end
AppendsOne(earlier, later, n) ==
    /\ Len(later) = Len(earlier) + 1
    /\ SubSeq(later, 1, Len(earlier)) = earlier
    /\ later[Len(later)].RAttr = Ptr(n)
    /\ \A i \in 1..Len(earlier) : earlier[i].id # later[Len(later)].id

\* two rows of rows carry the explicit number n
NumberTwice(rows, n) ==
    \E i, j \in 1..Len(rows) : i # j /\ rows[i].RAttr = Ptr(n) /\ rows[j].RAttr = Ptr(n)

\* the explicit numbers of rows
NumbersOf(rows) == {Deref(rows[i].RAttr) : i \in {j \in 1..Len(rows) : rows[j].RAttr # Nil}}

\* row i carries an explicit number that an earlier row carries too
RowRepeats(rows, i) ==
    /\ rows[i].RAttr # Nil
    /\ \E j \in 1..(i - 1) : rows[j].RAttr = rows[i].RAttr

\* cell k of row i carries an explicit address that an earlier cell of row i
\* carries too
CellRepeats(rows, i, k) ==
    /\ rows[i].C[k].RAttr # Nil
    /\ \E l \in 1..(k - 1) : rows[i].C[l].RAttr = rows[i].C[k].RAttr

DuplicateRow(rows) == \E i \in 1..Len(rows) : RowRepeats(rows, i)
DuplicateCell(rows) ==
    \E i \in 1..Len(rows) : \E k \in 1..Len(rows[i].C) : CellRepeats(rows, i, k)

\* the first violation in the scan order of the rows: rows in stored order, the
\* number of a row before its cells, the cells in stored order
FirstViolation(rows, name) ==
    LET bad(i) == RowRepeats(rows, i) \/ \E k \in 1..Len(rows[i].C) : CellRepeats(rows, i, k)
        i == CHOOSE a \in 1..Len(rows) : bad(a) /\ \A b \in 1..(a - 1) : ~bad(b)
        k == CHOOSE a \in 1..Len(rows[i].C) :
                 CellRepeats(rows, i, a) /\ \A b \in 1..(a - 1) : ~CellRepeats(rows, i, b)
    IN IF RowRepeats(rows, i) THEN ReusedRow(name, Deref(rows[i].RAttr))
       ELSE ReusedCell(name, Deref(rows[i].C[k].RAttr))

\* the 1-based position of x in seq, 0 when seq does not hold it
PositionIn(seq, x) ==
    IF \E k \in 1..Len(seq) : seq[k] = x
    THEN CHOOSE k \in 1..Len(seq) : seq[k] = x /\ \A l \in 1..(k - 1) : seq[l] # x
    ELSE 0

\* the identifiers of the entries of a relationship set
IdsOf(set) == {set[k].Id : k \in 1..Len(set)}

---------------------------------------------------------------------------
(* C1: EnsureRow(n) finds or creates.  When a row carries the number n the   *)
(* call hands back the first such row in stored order and leaves the rows    *)
(* as they are; otherwise it appends exactly one row numbered n and hands    *)
(* that row back.  Calling EnsureRow(n) again right away hands back the same *)
(* row and leaves the rows as they are.                                      *)
C1_EnsureRowFindsOrCreates ==
    /\ [][ret'.op = "EnsureRow" =>
            IF HasNumber(Row, ret'.rowNum)
            THEN /\ Row' = Row
                 /\ ret'.row = Row[FirstNumbered(Row, ret'.rowNum)].id
            ELSE /\ AppendsOne(Row, Row', ret'.rowNum)
                 /\ ret'.row = Row'[Len(Row')].id]_vars
    /\ [](ret.op = "EnsureRow" =>
            EnsureRowOp(Row, ret.rowNum) = [Row |-> Row, val |-> ret.row])

\* EnsureRow handed back the first of two rows that carry the number asked for
C1_Witness ==
    /\ ret.op = "EnsureRow"
    /\ \E i, j \in 1..Len(Row) :
          /\ i < j
          /\ Row[i].RAttr = Ptr(ret.rowNum)
          /\ Row[j].RAttr = Ptr(ret.rowNum)
          /\ ret.row = Row[i].id

(* C2: the row AddRow appends carries a number strictly greater than every  *)
(* explicit row number that was there when it was called.                   *)
C2_AddRowAboveAll ==
    ret.op = "AddRow" =>
        \A i \in 1..(Len(Row) - 1) :
            Row[i].RAttr # Nil =>
                U32Gt(Deref(Row[Len(Row)].RAttr), Deref(Row[i].RAttr))

(* C3: when the delegated validators succeed, Validate hands back an error  *)
(* exactly when two rows carry the same explicit number or two cells of one *)
(* row carry the same explicit address; rows without a number, cells        *)
(* without an address and equal addresses in different rows do not count.   *)
C3_ValidateIffDuplicate ==
    (ret.op = "Validate" /\ ret.delegated = <<NoErr, NoErr>>) =>
        ((ret.err # NoErr) <=> (DuplicateRow(Row) \/ DuplicateCell(Row)))

\* Validate passed a worksheet of two rows without a number that both hold a
\* cell at the same address
C3_Witness ==
    /\ ret.op = "Validate" /\ ret.delegated = <<NoErr, NoErr>> /\ ret.err = NoErr
    /\ \E i, j \in 1..Len(Row) :
          /\ i # j /\ Row[i].RAttr = Nil /\ Row[j].RAttr = Nil
          /\ \E k \in 1..Len(Row[i].C), l \in 1..Len(Row[j].C) :
                Row[i].C[k].RAttr # Nil /\ Row[i].C[k].RAttr = Row[j].C[l].RAttr

C5_SetDrawingAddsOneRelationship ==
    [][ret'.op = "SetDrawing" =>
        LET s == ret'.handles[1]
            d == ret'.handles[2]
            i == PositionIn(xws[s.w], s.ws)
            j == PositionIn(drawings[d.wb], d.x)
        IN (i # 0 /\ j # 0) =>
            LET old == xwsRels[s.w][i]
                new == xwsRels'[s.w][i]
                e   == new[Len(new)]
            IN /\ Len(new) = Len(old) + 1
               /\ SubSeq(new, 1, Len(old)) = old
               /\ e.Type = "DrawingType"
               /\ e.Target = <<"DocTypeSpreadsheet", j>>
               /\ e.Id \notin IdsOf(old)
               /\ \A w \in Workbooks : \A k \in 1..Len(xws[w]) :
                      <<w, k>> # <<s.w, i>> => xwsRels'[w][k] = xwsRels[w][k]
               /\ Drawing' = [Drawing EXCEPT ![s.ws] = Ptr([IdAttr |-> e.Id])]
               /\ ~ret'.panicked]_vars

\* a second SetDrawing on a sheet, with another drawing: both relationships
\* are in the set and the reference is the identifier of the second
C5_Witness ==
    /\ ret.op = "SetDrawing"
    /\ LET s == ret.handles[1]
           i == PositionIn(xws[s.w], s.ws)
       IN /\ i # 0
          /\ Len(xwsRels[s.w][i]) = 2
          /\ xwsRels[s.w][i][1].Target # xwsRels[s.w][i][2].Target
          /\ Drawing[s.ws] = Ptr([IdAttr |-> xwsRels[s.w][i][2].Id])

(* C6: a worksheet tree whose drawing reference is set holds a relationship *)
(* identifier that is in the relationship set of that worksheet tree.       *)
C6_DrawingRefInOwnSet ==
    \A t \in WsTrees :
        Drawing[t] # Nil =>
            \E w \in Workbooks : \E i \in 1..Len(xws[w]) :
                /\ xws[w][i] = t
                /\ Deref(Drawing[t]).IdAttr \in IdsOf(xwsRels[w][i])

C8_RowsInAppendOrder ==
    [][/\ Len(Row') \in {Len(Row), Len(Row) + 1}
       /\ SubSeq(Row', 1, Len(Row)) = Row
       /\ ret'.op = "Rows" =>
            /\ Len(ret'.rows) = Len(Row')
            /\ \A i \in 1..Len(Row') : ret'.rows[i] = Row'[i].id
       /\ SubSeq(RowsOp(Row'), 1, Len(RowsOp(Row))) = RowsOp(Row)]_vars

\* Rows on three rows whose numbers go down and then up
C8_Witness ==
    /\ ret.op = "Rows"
    /\ Len(Row) = 3
    /\ \A i \in 1..3 : Row[i].RAttr # Nil
    /\ U32Gt(Deref(Row[1].RAttr), Deref(Row[2].RAttr))
    /\ U32Gt(Deref(Row[3].RAttr), Deref(Row[2].RAttr))
    /\ ret.rows = <<Row[1].id, Row[2].id, Row[3].id>>

(* C9: from an empty worksheet, with EnsureRow and AddRow alone, no two rows *)
(* carry the same number, and Validate reports no duplicate row.             *)
C9_NoNumberReused ==
    /\ \A i, j \in 1..Len(Row) : i # j => Row[i].RAttr # Row[j].RAttr
    /\ ret.op = "Validate" => ret.err.kind # "reusedRow"

(* C10: Validate hands back the first violation in scan order only (rows in  *)
(* stored order, the number of a row before its cells, the cells in stored   *)
(* order and compared within their row), and asks the delegated validators,  *)
(* the sheet metadata before the worksheet tree, only when no row and no     *)
(* cell is a duplicate.                                                      *)
C10_ValidateFirstViolation ==
    ret.op = "Validate" =>
        ret.err = IF DuplicateRow(Row) \/ DuplicateCell(Row)
                  THEN FirstViolation(Row, NameAttr)
                  ELSE IF ret.delegated[1] # NoErr THEN ret.delegated[1]
                  ELSE ret.delegated[2]

\* Validate handed back the duplicate cell of an earlier row although a later
\* row repeats a number and both delegated validators fail
C10_Witness ==
    /\ ret.op = "Validate"
    /\ ret.err.kind = "reusedCell"
    /\ ret.delegated[1] # NoErr /\ ret.delegated[2] # NoErr
    /\ \E i \in 1..Len(Row) : RowRepeats(Row, i)

====
